---- MODULE Spec2Model ----
(***************************************************************************)
(* Model of the multi-horizon predictive-model pipeline of                 *)
(* services/models: FeatureEngineer (feature_engineering.py),              *)
(* StockPredictiveModel (predictive_model.py) and ModelManager             *)
(* (model_manager.py).                                                     *)
(*                                                                         *)
(* Python objects are records, dicts are functions whose DOMAIN is the set *)
(* of keys present.  Calls into third-party libraries (pandas, sklearn,    *)
(* optuna, joblib, json, the file system) are environment steps: whether   *)
(* such a call returns or raises is an input of the action that makes it.  *)
(* Every training run carries a run number, which stands for the fitted    *)
(* estimators and the metrics that run computed.                           *)
(***************************************************************************)
EXTENDS Integers, Sequences, FiniteSets, TLC

VARIABLES
    models,          \* ModelManager.models: symbol -> StockPredictiveModel
    model_metadata,  \* ModelManager.model_metadata: symbol -> metadata dict
    disk_model,      \* files <model_dir>/<symbol>_model.joblib
    disk_meta,       \* files <model_dir>/<symbol>_metadata.json
    now,             \* datetime.now(), in ticks
    runs,            \* number of training runs started so far
    last,            \* the most recent ModelManager call and its result
    prev,            \* what is kept of the call before it
    torn,            \* the training run a kill cut between its two saves
    spm,             \* a StockPredictiveModel used directly
    pres,            \* the most recent call on spm and its result
    pruns,           \* number of training runs started on spm
    wpc, wlocal,     \* a thread inside train_model: position and locals
    rpc, rlocal,     \* a thread inside get_prediction: position and locals
    fcall,           \* the most recent call of a function on its own
    search,          \* a train call in progress: its loop and its search
    processed_documents,  \* main.py: the module-level list of documents
    uploads,         \* the /upload requests: position and returned index
    response,        \* the most recent /chat or /qa response
    sqs,             \* the request queue: body and state of each message
    worker,          \* process_queue: its position and its batch
    analysis,        \* Redis: the messages whose analysis:{symbol} was set
    redis_client,    \* dependencies.py: the module-level client, or None
    callers,         \* the get_redis_client calls: position and client
    pool             \* the clients created, and a close in progress

vars == <<models, model_metadata, disk_model, disk_meta, now, runs, last, prev,
          torn, spm, pres, pruns, wpc, wlocal, rpc, rlocal, fcall,
          search, processed_documents, uploads, response, sqs, worker,
          analysis, redis_client, callers, pool>>
mgrVars == <<models, model_metadata, disk_model, disk_meta, now, runs, last, prev,
            torn>>
spmVars == <<spm, pres, pruns>>
thrVars == <<wpc, wlocal, rpc, rlocal>>
fnVars == <<fcall>>
searchVars == <<search>>
httpVars == <<processed_documents, uploads, response>>
queueVars == <<sqs, worker, analysis>>
redisVars == <<redis_client, callers, pool>>
svcVars == <<searchVars, httpVars, queueVars, redisVars>>
coreVars == <<mgrVars, spmVars, thrVars, fnVars>>

(***************************************************************************)
(* Bounds of the model.                                                    *)
(***************************************************************************)
MaxRuns == 2        \* training runs per behaviour
MaxTime == 2        \* last tick of the clock
MaxAgeDays == 1     \* largest max_age_days a caller passes
TicksPerDay == 2    \* clock ticks in one day (sub-day resolution)
ScoreMargin == 20   \* risk scores range this far below 0.0 and above 1.0
MaxRecords == 2     \* longest sentiment record list
MaxDate == 13       \* latest date of a row handed to cross-validation
MaxRows == 25       \* longest feature matrix handed to create_targets

Symbols == {"AAPL", "TCS"}
Active == {"AAPL"}          \* symbols the callers of Spec use

EmptyDict == [x \in {} |-> x]
Range(s) == { s[i] : i \in 1..Len(s) }

(***************************************************************************)
(* Inputs.  A history / current_data frame is known by its column names   *)
(* and by which data it holds; the sentiment list is empty or not.         *)
(***************************************************************************)
BaseCols == <<"date", "open", "high", "low", "close", "volume">>

\* The inputs used on a StockPredictiveModel here: a plain history and its
\* latest rows, a history with one more column and latest rows where that
\* column is renamed, rows without the volume column, and an empty
\* sentiment list.
Inputs ==
    { [id |-> "history", cols |-> BaseCols, sentiment |-> "records"],
      [id |-> "latest", cols |-> BaseCols, sentiment |-> "records"],
      [id |-> "history", cols |-> BaseCols \o <<"adj_close">>,
       sentiment |-> "records"],
      [id |-> "latest", cols |-> BaseCols \o <<"adjclose">>,
       sentiment |-> "records"],
      [id |-> "latest", cols |-> <<"date", "open", "high", "low", "close">>,
       sentiment |-> "records"],
      [id |-> "history", cols |-> BaseCols, sentiment |-> "empty"] }

\* The frames and sentiment lists the callers of a ModelManager pass here:
\* a history for training, its latest rows for prediction.
MgrTrainInputs ==
    { [id |-> "history", cols |-> BaseCols, sentiment |-> "records"],
      [id |-> "history", cols |-> BaseCols, sentiment |-> "empty"] }
MgrPredictInputs ==
    { [id |-> "latest", cols |-> BaseCols, sentiment |-> "records"] }

(***************************************************************************)
(* FeatureEngineer                                                         *)
(***************************************************************************)
NewFeatureEngineer == [scaler |-> "unfit", feature_columns |-> <<>>]

TechnicalCols ==
    <<"sma_20", "sma_50", "ema_20", "macd", "adx", "rsi", "stoch", "cci",
      "williams_r", "bbands_width", "atr", "obv", "mfi">>

PriceCols ==
    <<"returns", "log_returns",
      "volatility_5d", "momentum_5d", "price_range_5d",
      "volatility_10d", "momentum_10d", "price_range_10d",
      "volatility_20d", "momentum_20d", "price_range_20d",
      "volatility_50d", "momentum_50d", "price_range_50d",
      "distance_from_high", "distance_from_low">>

SentimentCols ==
    <<"sentiment_avg_sentiment", "sentiment_weighted_avg_sentiment",
      "sentiment_sentiment_volatility", "sentiment_sentiment_momentum",
      "sentiment_positive_ratio", "sentiment_negative_ratio">>

MarketCols ==
    <<"market_market_volatility", "market_sector_performance",
      "market_market_sentiment", "market_interest_rate", "market_market_volume">>

\* Columns the indicator and price code indexes: df['close'], df['high'], ...
RequiredCols == {"close", "high", "low", "volume"}

\* create_technical_features / create_price_features raise KeyError on a
\* frame that lacks a column they index.
TechnicalRaises(inp) == ~(RequiredCols \subseteq Range(inp.cols))

\* create_sentiment_features: DataFrame([]) has no 'sentiment' column, so
\* df['sentiment'] raises KeyError on an empty record list.
SentimentRaises(inp) == inp.sentiment = "empty"

\* The columns prepare_features appends to every frame, in order.
GeneratedCols == TechnicalCols \o PriceCols \o SentimentCols \o MarketCols

\* feature_cols: every column of the assembled frame but the six raw ones,
\* that is the caller's other columns followed by GeneratedCols.  A column
\* list of this shape is held in the state by the part before
\* GeneratedCols; Columns gives the list itself.
FeatureCols(cols) == SelectSeq(cols, LAMBDA c : c \notin Range(BaseCols))
Columns(feature_cols) == feature_cols \o GeneratedCols

\* prepare_features on engineer fe: raises, or refits the scaler on the
\* given frame and records that frame's feature columns.
prepare_features(fe, inp) ==
    IF TechnicalRaises(inp) \/ SentimentRaises(inp)
    THEN [raised |-> TRUE, fe |-> fe, feature_cols |-> <<>>]
    ELSE [raised |-> FALSE,
          fe |-> [scaler |-> inp.id, feature_columns |-> FeatureCols(inp.cols)],
          feature_cols |-> FeatureCols(inp.cols)]

\* prepare_prediction_data: prepare_features again, then the columns that
\* call has just recorded.
prepare_prediction_data(fe, inp) ==
    LET r == prepare_features(fe, inp)
    IN  [raised |-> r.raised, fe |-> r.fe, X |-> r.fe.feature_columns]

(***************************************************************************)
(* StockPredictiveModel                                                    *)
(***************************************************************************)
forecast_periods == <<1, 5, 10, 20>>
Periods == Range(forecast_periods)

\* f'{period}d'
PeriodKey(p) == (1 :> "1d" @@ 5 :> "5d" @@ 10 :> "10d" @@ 20 :> "20d")[p]
\* f'growth_{period}d', f'risk_{period}d'
ArtifactKey(task, p) == <<task, PeriodKey(p)>>
AllArtifactKeys == { ArtifactKey(t, p) : t \in {"growth", "risk"}, p \in Periods }

NewStockPredictiveModel ==
    [feature_engineer |-> NewFeatureEngineer,
     models |-> EmptyDict,
     feature_importance |-> EmptyDict]

\* Where a training run raises: in _train_model for the growth or the risk
\* task of a period, in _calculate_feature_importance, or nowhere.
NoFail == [period |-> 0, stage |-> "none"]
FailPoints ==
    {NoFail} \cup [period : Periods, stage : {"growth", "risk", "importance"}]
\* The failures of training the callers of a ModelManager meet here.
MgrFailPoints == {NoFail, [period |-> 10, stage |-> "risk"]}

\* The loop of train over forecast_periods from index i on.  st holds
\* self.models, self.feature_importance, the local results and whether an
\* exception has left the loop.
RECURSIVE TrainPeriods(_, _, _, _, _)
TrainPeriods(i, st, cols, fail, run) ==
    IF i > Len(forecast_periods) THEN st
    ELSE
      LET p == forecast_periods[i]
          fitted == [run |-> run, cols |-> cols]
          registered ==
              [st EXCEPT !.models =
                  (ArtifactKey("growth", p) :> fitted @@
                   ArtifactKey("risk", p) :> fitted) @@ st.models]
          recorded ==
              [registered EXCEPT
                  !.feature_importance =
                      (ArtifactKey("growth", p) :> run) @@ st.feature_importance,
                  !.results = (PeriodKey(p) :> run) @@ st.results]
      IN  IF fail.period = p /\ fail.stage \in {"growth", "risk"}
          THEN [st EXCEPT !.raised = TRUE]
          ELSE IF fail.period = p /\ fail.stage = "importance"
          THEN [registered EXCEPT !.raised = TRUE]
          ELSE TrainPeriods(i + 1, recorded, cols, fail, run)

ErrorResult == [status |-> "error", keys |-> {"status", "error"}]

\* A train that goes on to the horizons when feature preparation has raised.
train_without_features(obj, inp, fail, run) ==
    LET prep == prepare_features(obj.feature_engineer, inp)
        st0 == [models |-> obj.models,
                feature_importance |-> obj.feature_importance,
                results |-> EmptyDict,
                raised |-> FALSE]
        st == TrainPeriods(1, st0, prep.feature_cols, fail, run)
    IN  [obj |-> [feature_engineer |-> prep.fe,
                  models |-> st.models,
                  feature_importance |-> st.feature_importance],
         result |->
             IF st.raised
             THEN ErrorResult @@ [metrics |-> EmptyDict]
             ELSE [status |-> "success",
                   keys |-> {"status", "metrics", "feature_importance"},
                   metrics |-> st.results]]

\* train: one try block around feature preparation and the whole loop.
train(obj, inp, fail, run) ==
    LET prep == prepare_features(obj.feature_engineer, inp)
        st0 == [models |-> obj.models,
                feature_importance |-> obj.feature_importance,
                results |-> EmptyDict,
                raised |-> FALSE]
        st == TrainPeriods(1, st0, prep.feature_cols, fail, run)
    IN  IF prep.raised
        THEN [obj |-> obj, result |-> ErrorResult @@ [metrics |-> EmptyDict]]
        ELSE [obj |-> [feature_engineer |-> prep.fe,
                       models |-> st.models,
                       feature_importance |-> st.feature_importance],
              result |->
                  IF st.raised
                  THEN ErrorResult @@ [metrics |-> EmptyDict]
                  ELSE [status |-> "success",
                        keys |-> {"status", "metrics", "feature_importance"},
                        metrics |-> st.results]]

\* What the fitted estimators do: estimators check the width of X; whether
\* they also check the column names, and whether they offer predict_proba,
\* depends on the estimator library.
Estimators == [namecheck : BOOLEAN, proba : BOOLEAN]

EstimatorPredictRaises(fitted, X, est) ==
    \/ Len(Columns(X)) # Len(Columns(fitted.cols))
    \/ est.namecheck /\ Columns(X) # Columns(fitted.cols)

\* The loop of predict over forecast_periods from index i on.  acc holds
\* the local predictions and whether an estimator has scored the row.
RECURSIVE PredictPeriods(_, _, _, _, _)
PredictPeriods(i, acc, ms, X, est) ==
    IF i > Len(forecast_periods) THEN acc
    ELSE
      LET p == forecast_periods[i]
          g == ArtifactKey("growth", p)
          r == ArtifactKey("risk", p)
      IN  IF g \notin DOMAIN ms \/ EstimatorPredictRaises(ms[g], X, est)
          THEN [acc EXCEPT !.raised = TRUE]
          ELSE IF \/ r \notin DOMAIN ms
                  \/ EstimatorPredictRaises(ms[r], X, est)
                  \/ ~est.proba
          THEN [acc EXCEPT !.raised = TRUE, !.scored = TRUE]
          ELSE PredictPeriods(i + 1,
                   [acc EXCEPT
                       !.scored = TRUE,
                       !.predictions =
                           (PeriodKey(p) :> [growth |-> ms[g].run, risk |-> ms[r].run])
                               @@ acc.predictions],
                   ms, X, est)

\* A variant of the loop that skips a horizon whose artifact is missing.
RECURSIVE PredictPeriodsSkipping(_, _, _, _, _)
PredictPeriodsSkipping(i, acc, ms, X, est) ==
    IF i > Len(forecast_periods) THEN acc
    ELSE
      LET p == forecast_periods[i]
          g == ArtifactKey("growth", p)
          r == ArtifactKey("risk", p)
      IN  IF g \notin DOMAIN ms \/ r \notin DOMAIN ms
          THEN PredictPeriodsSkipping(i + 1, acc, ms, X, est)
          ELSE IF EstimatorPredictRaises(ms[g], X, est)
          THEN [acc EXCEPT !.raised = TRUE]
          ELSE IF EstimatorPredictRaises(ms[r], X, est) \/ ~est.proba
          THEN [acc EXCEPT !.raised = TRUE, !.scored = TRUE]
          ELSE PredictPeriodsSkipping(i + 1,
                   [acc EXCEPT
                       !.scored = TRUE,
                       !.predictions =
                           (PeriodKey(p) :> [growth |-> ms[g].run, risk |-> ms[r].run])
                               @@ acc.predictions],
                   ms, X, est)

NoPredictions == [raised |-> FALSE, scored |-> FALSE, predictions |-> EmptyDict]

\* The result of predict after feature preparation prep and loop outcome
\* loop; scored tells whether an estimator returned a score for the row.
PredictResult(obj, prep, loop) ==
    [obj |-> [obj EXCEPT !.feature_engineer = prep.fe],
     scored |-> loop.scored,
     result |->
         IF prep.raised \/ loop.raised
         THEN ErrorResult @@ [predictions |-> EmptyDict]
         ELSE [status |-> "success",
               keys |-> {"status", "predictions", "timestamp"},
               predictions |-> loop.predictions]]

predictSkipping(obj, inp, est) ==
    LET prep == prepare_prediction_data(obj.feature_engineer, inp)
    IN  PredictResult(obj, prep,
            IF prep.raised THEN [NoPredictions EXCEPT !.raised = TRUE]
            ELSE PredictPeriodsSkipping(1, NoPredictions, obj.models, prep.X, est))

\* predict: one try block; the result of an exception carries no predictions.
predict(obj, inp, est) ==
    LET prep == prepare_prediction_data(obj.feature_engineer, inp)
    IN  PredictResult(obj, prep,
            IF prep.raised THEN [NoPredictions EXCEPT !.raised = TRUE]
            ELSE PredictPeriods(1, NoPredictions, obj.models, prep.X, est))

(***************************************************************************)
(* A StockPredictiveModel used directly: construct, train, predict.        *)
(* pres records the last call: its result and what held when it was made.  *)
(***************************************************************************)
NoCall ==
    [op |-> "none", status |-> "none", keys |-> {}, horizons |-> {},
     preds |-> {}, lacking |-> FALSE, held |-> {}, mismatch |-> FALSE,
     scored |-> FALSE,
     fail |-> NoFail, produced |-> {}, run |-> 0]

\* Periods for which obj holds an artifact fitted by training run `run`.
ProducedBy(obj, run) ==
    { p \in Periods :
        \E t \in {"growth", "risk"} :
            /\ ArtifactKey(t, p) \in DOMAIN obj.models
            /\ obj.models[ArtifactKey(t, p)].run = run }

\* Periods for which obj holds both artifacts.
HeldPeriods(obj) ==
    { p \in Periods :
        /\ ArtifactKey("growth", p) \in DOMAIN obj.models
        /\ ArtifactKey("risk", p) \in DOMAIN obj.models }

\* The inference frame yields feature columns other than the fitted ones.
SchemaMismatch(obj, inp) ==
    /\ ~prepare_features(obj.feature_engineer, inp).raised
    /\ \E k \in DOMAIN obj.models :
           Columns(obj.models[k].cols) # Columns(FeatureCols(inp.cols))

PNew ==
    /\ spm' = NewStockPredictiveModel
    /\ pres' = [NoCall EXCEPT !.op = "new"]
    /\ UNCHANGED <<pruns, mgrVars, thrVars, fnVars, svcVars>>

PTrain(inp, fail) ==
    /\ pruns < MaxRuns
    /\ \E run \in {pruns + 1} : \E r \in {train(spm, inp, fail, run)} :
           /\ spm' = r.obj
           /\ pres' = [NoCall EXCEPT
                  !.op = "train",
                  !.status = r.result.status,
                  !.keys = r.result.keys,
                  !.horizons = DOMAIN r.result.metrics,
                  !.fail = IF prepare_features(spm.feature_engineer, inp).raised
                           THEN [period |-> 0, stage |-> "features"]
                           ELSE fail,
                  !.produced = ProducedBy(r.obj, run),
                  !.run = run]
           /\ pruns' = run
    /\ UNCHANGED <<mgrVars, thrVars, fnVars, svcVars>>

PPredict(inp, est) ==
    /\ \E r \in {predict(spm, inp, est)} :
           /\ spm' = r.obj
           /\ pres' = [NoCall EXCEPT
                  !.op = "predict",
                  !.status = r.result.status,
                  !.keys = r.result.keys,
                  !.preds = DOMAIN r.result.predictions,
                  !.lacking = (AllArtifactKeys \ DOMAIN spm.models # {}),
                  !.held = HeldPeriods(spm),
                  !.mismatch = SchemaMismatch(spm, inp),
                  !.scored = r.scored]
    /\ UNCHANGED <<pruns, mgrVars, thrVars, fnVars, svcVars>>

NextP ==
    \/ PNew
    \/ \E inp \in Inputs, fail \in FailPoints : PTrain(inp, fail)
    \/ \E inp \in Inputs, est \in Estimators : PPredict(inp, est)

(***************************************************************************)
(* ModelManager                                                            *)
(***************************************************************************)
\* datetime.isoformat() and datetime.fromisoformat(): a string that holds
\* the instant, and the instant it holds.
isoformat(t) == <<"iso", t>>
fromisoformat(str) == str[2]

\* An age that counts a started day as a whole one.
DaysRoundedUp(delta) == (delta + TicksPerDay - 1) \div TicksPerDay

\* timedelta.days: whole days, rounded down.
Days(delta) == delta \div TicksPerDay

\* The state a ModelManager works on: its two dicts and its directory.
MgrState ==
    [models |-> models, model_metadata |-> model_metadata,
     disk_model |-> disk_model, disk_meta |-> disk_meta]

\* A file a write has left incomplete, and a file written to the end.
CorruptFile == [valid |-> FALSE]
ValidFile(content) == [valid |-> TRUE, content |-> content]

\* How the two saves of train_model end: both return, joblib.dump raises
\* before or while writing, open() of the metadata file raises, or
\* json.dump raises into the file open() has truncated.
SaveOutcomes == {"ok", "model_open", "model_write", "meta_open", "meta_write"}

\* Saves that keep a file that is already there.
SaveToDiskOnce(st, s, io) ==
    LET dm == IF io = "model_open" \/ s \in DOMAIN st.disk_model THEN st.disk_model
              ELSE IF io = "model_write" THEN (s :> CorruptFile) @@ st.disk_model
              ELSE (s :> ValidFile(st.models[s])) @@ st.disk_model
        dd == IF io \in {"model_open", "model_write", "meta_open"}
                 \/ s \in DOMAIN st.disk_meta
              THEN st.disk_meta
              ELSE IF io = "meta_write" THEN (s :> CorruptFile) @@ st.disk_meta
              ELSE (s :> ValidFile(st.model_metadata[s])) @@ st.disk_meta
    IN  [st EXCEPT !.disk_model = dm, !.disk_meta = dd]

\* _save_model then _save_metadata on state st whose dicts already hold the
\* new entry for symbol s.
SaveToDisk(st, s, io) ==
    LET dm == IF io = "model_open" THEN st.disk_model
              ELSE IF io = "model_write" THEN (s :> CorruptFile) @@ st.disk_model
              ELSE (s :> ValidFile(st.models[s])) @@ st.disk_model
        dd == IF io \in {"model_open", "model_write", "meta_open"} THEN st.disk_meta
              ELSE IF io = "meta_write" THEN (s :> CorruptFile) @@ st.disk_meta
              ELSE (s :> ValidFile(st.model_metadata[s])) @@ st.disk_meta
    IN  [st EXCEPT !.disk_model = dm, !.disk_meta = dd]

\* Assignments that replace the two dicts by dicts of one entry.
CacheTrainedAlone(st, s, obj, result, t) ==
    [st EXCEPT
        !.models = (s :> obj),
        !.model_metadata =
            (s :> [last_trained |-> isoformat(t),
                   metrics |-> result.metrics,
                   feature_importance |-> obj.feature_importance])]

\* Lines 29-34 of train_model: the two dict assignments.
CacheTrained(st, s, obj, result, t) ==
    [st EXCEPT
        !.models = (s :> obj) @@ st.models,
        !.model_metadata =
            (s :> [last_trained |-> isoformat(t),
                   metrics |-> result.metrics,
                   feature_importance |-> obj.feature_importance])
                @@ st.model_metadata]

\* A train_model that caches and saves whatever train has returned.
train_model_unguarded(st, s, inp, fail, io, t, run) ==
    LET r == train(NewStockPredictiveModel, inp, fail, run)
        cached == CacheTrained(st, s, r.obj, r.result, t)
    IN  [st |-> SaveToDisk(cached, s, io),
         memOk |-> r.result.status = "success",
         io |-> IF r.result.status = "success" THEN io ELSE "none",
         result |-> IF io = "ok"
                    THEN [status |-> r.result.status, keys |-> r.result.keys]
                    ELSE ErrorResult]

\* train_model at time t as training run `run`.
train_model(st, s, inp, fail, io, t, run) ==
    LET r == train(NewStockPredictiveModel, inp, fail, run)
        cached == CacheTrained(st, s, r.obj, r.result, t)
    IN  IF r.result.status # "success"
        THEN [st |-> st, memOk |-> FALSE, io |-> "none",
              result |-> [status |-> r.result.status, keys |-> r.result.keys]]
        ELSE [st |-> SaveToDisk(cached, s, io), memOk |-> TRUE, io |-> io,
              result |-> IF io = "ok"
                         THEN [status |-> r.result.status, keys |-> r.result.keys]
                         ELSE ErrorResult]

period_names ==
    "1d" :> "Next Day" @@ "5d" :> "Next Week" @@
    "10d" :> "Next Two Weeks" @@ "20d" :> "Next Month"

\* _format_predictions: one entry per prediction, under its display name.
format_predictions(predictions) ==
    [n \in { period_names[k] : k \in DOMAIN predictions } |->
        predictions[CHOOSE k \in DOMAIN predictions : period_names[k] = n]]

\* The messages of the exceptions get_prediction turns into a result.
NotFound == "No trained model found"
LoadFailed == "file cannot be read back"

\* A _load_model that looks for the artifact file only.
load_model_artifact_only(st, s) ==
    IF s \in DOMAIN st.disk_model
    THEN IF ~st.disk_model[s].valid
         THEN [raised |-> TRUE, error |-> LoadFailed, st |-> st]
         ELSE LET st1 == [st EXCEPT !.models =
                             (s :> st.disk_model[s].content) @@ st.models]
              IN  IF s \notin DOMAIN st.disk_meta \/ ~st.disk_meta[s].valid
                  THEN [raised |-> TRUE, error |-> LoadFailed, st |-> st1]
                  ELSE [raised |-> FALSE, error |-> "none",
                        st |-> [st1 EXCEPT !.model_metadata =
                                   (s :> st.disk_meta[s].content)
                                       @@ st.model_metadata]]
    ELSE [raised |-> TRUE, error |-> NotFound, st |-> st]

\* _load_model: loads the artifact, then the metadata; raises
\* FileNotFoundError when a file is missing, and the exception of the
\* loader when a file cannot be read back.
load_model(st, s) ==
    IF s \in DOMAIN st.disk_model /\ s \in DOMAIN st.disk_meta
    THEN IF ~st.disk_model[s].valid
         THEN [raised |-> TRUE, error |-> LoadFailed, st |-> st]
         ELSE LET st1 == [st EXCEPT !.models =
                             (s :> st.disk_model[s].content) @@ st.models]
              IN  IF ~st.disk_meta[s].valid
                  THEN [raised |-> TRUE, error |-> LoadFailed, st |-> st1]
                  ELSE [raised |-> FALSE, error |-> "none",
                        st |-> [st1 EXCEPT !.model_metadata =
                                   (s :> st.disk_meta[s].content)
                                       @@ st.model_metadata]]
    ELSE [raised |-> TRUE, error |-> NotFound, st |-> st]

\* What a get_prediction result carries besides status and keys: the
\* formatted predictions and the metadata returned with them.
NoPrediction == [predictions |-> EmptyDict, metadata |-> EmptyDict]

\* An error result of get_prediction with the message it carries.
PredictionError(error) == [error |-> error] @@ ErrorResult @@ NoPrediction

\* get_prediction.
get_prediction(st, s, inp, est) ==
    LET ld == IF s \notin DOMAIN st.models THEN load_model(st, s)
              ELSE [raised |-> FALSE, st |-> st]
    IN  IF ld.raised
        THEN [st |-> ld.st, result |-> PredictionError(ld.error)]
        ELSE
          LET r == predict(ld.st.models[s], inp, est)
              st2 == [ld.st EXCEPT !.models[s] = r.obj]
          IN  IF r.result.status = "success"
              THEN IF s \in DOMAIN st2.model_metadata
                   THEN [st |-> st2,
                         result |->
                             [status |-> "success",
                              keys |-> {"status", "predictions", "metadata"},
                              error |-> "none",
                              predictions |->
                                  format_predictions(r.result.predictions),
                              metadata |-> st2.model_metadata[s]]]
                   ELSE [st |-> st2, result |-> PredictionError("KeyError")]
              ELSE [st |-> st2, result |-> PredictionError("predict")]

\* A staleness test that also retrains a model exactly max_age_days old.
RetrainNeededInclusive(age, max_age_days) == age >= max_age_days

\* The staleness test of retrain_if_needed.
RetrainNeeded(age, max_age_days) == age > max_age_days

\* The age retrain_if_needed computes for a symbol with cached metadata.
ModelAge(st, s, t) ==
    Days(t - fromisoformat(st.model_metadata[s].last_trained))

\* Whether retrain_if_needed calls train_model.
RetrainTrains(st, s, t, max_age_days) ==
    IF s \in DOMAIN st.model_metadata
    THEN RetrainNeeded(ModelAge(st, s, t), max_age_days)
    ELSE TRUE

\* retrain_if_needed.
retrain_if_needed(st, s, inp, fail, io, max_age_days, t, run) ==
    IF RetrainTrains(st, s, t, max_age_days)
    THEN train_model(st, s, inp, fail, io, t, run) @@ [trained |-> TRUE]
    ELSE [st |-> st, memOk |-> FALSE, io |-> "none", trained |-> FALSE,
          result |-> [status |-> "success", keys |-> {"status", "message"}]]

\* get_model_metadata.
get_model_metadata(st, s) ==
    IF s \in DOMAIN st.model_metadata
    THEN [status |-> "success", keys |-> {"status", "metadata"}]
    ELSE ErrorResult

(***************************************************************************)
(* Calls on one ModelManager, one at a time.  last records the call just   *)
(* made: its arguments, what held when it was made, and its result.        *)
(***************************************************************************)
NoOp ==
    [op |-> "none", sym |-> "", at |-> 0, max_age_days |-> 0,
     hadMeta |-> FALSE, elapsed |-> 0, trained |-> FALSE, memOk |-> FALSE,
     io |-> "none", status |-> "none", keys |-> {}, error |-> "none",
     featuresFailed |-> FALSE, produced |-> {},
     pkeys |-> {},
     predRuns |-> {}, metaRuns |-> {},
     changed |-> FALSE, updated |-> FALSE]

\* What is kept of a call once the next one is made: a training call
\* (train_model, retrain_if_needed) by its symbol, time, status and whether
\* it updated the metadata; any other call as "other".
Summary(call) ==
    IF call.op \in {"train_model", "retrain_if_needed"}
    THEN [op |-> call.op, sym |-> call.sym, at |-> call.at,
          status |-> call.status, updated |-> call.updated]
    ELSE [op |-> "other", sym |-> "", at |-> 0,
          status |-> "none", updated |-> FALSE]

\* How a training call of a ModelManager goes here: where training raises,
\* and how the saves end when it does not.
MgrOutcomes ==
    { [fail |-> f, io |-> "none"] : f \in MgrFailPoints \ {NoFail} }
        \cup { [fail |-> NoFail, io |-> io] : io \in SaveOutcomes }

Install(st) ==
    /\ models' = st.models
    /\ model_metadata' = st.model_metadata
    /\ disk_model' = st.disk_model
    /\ disk_meta' = st.disk_meta

\* The metadata entry of symbol s was written by the call from st to st2.
MetadataUpdated(st, st2, s) ==
    /\ s \in DOMAIN st2.model_metadata
    /\ s \in DOMAIN st.model_metadata =>
           st2.model_metadata[s] # st.model_metadata[s]

\* Training runs whose estimators produced the formatted predictions.
PredictionRuns(predictions) ==
    UNION { {predictions[k].growth, predictions[k].risk} : k \in DOMAIN predictions }

\* Training runs whose metrics a metadata dict holds.
MetadataRuns(md) ==
    IF "metrics" \in DOMAIN md
    THEN { md.metrics[k] : k \in DOMAIN md.metrics }
    ELSE {}

\* Feature construction raises on the frame and sentiment list of a training
\* call, and the periods the StockPredictiveModel of the call has fitted.
\* The inputs on which prepare_features raises and the periods each
\* training fits, worked out once for the inputs of the callers.
FeaturesFailOf ==
    { inp \in MgrTrainInputs : prepare_features(NewFeatureEngineer, inp).raised }
FeaturesFail(inp) == inp \in FeaturesFailOf
TrainedPeriodsOf ==
    { [inp |-> inp, fail |-> fail, run |-> run,
       produced |->
           ProducedBy(train(NewStockPredictiveModel, inp, fail, run).obj, run)] :
        inp \in MgrTrainInputs, fail \in MgrFailPoints, run \in 1..MaxRuns }
TrainedPeriods(inp, fail, run) ==
    (CHOOSE t \in TrainedPeriodsOf :
         t.inp = inp /\ t.fail = fail /\ t.run = run).produced

TrainModel(s, inp, fail, io) ==
    /\ runs < MaxRuns
    /\ \E r \in {train_model(MgrState, s, inp, fail, io, now, runs + 1)} :
           /\ Install(r.st)
           /\ last' = [NoOp EXCEPT
                  !.op = "train_model", !.sym = s,
                  !.trained = TRUE, !.memOk = r.memOk, !.io = r.io,
                  !.featuresFailed = FeaturesFail(inp),
                  !.produced = TrainedPeriods(inp, fail, runs + 1),
                  !.status = r.result.status, !.keys = r.result.keys,
                  !.changed = (r.st # MgrState),
                  !.updated = MetadataUpdated(MgrState, r.st, s)]
    /\ runs' = runs + 1
    /\ prev' = Summary(last)
    /\ UNCHANGED <<now, torn, spmVars, thrVars, fnVars, svcVars>>

\* The process is killed inside train_model after _save_model has returned
\* and before _save_metadata has run; a new process then constructs a
\* ModelManager on the same directory.
TrainModelCrash(s, inp) ==
    /\ runs < MaxRuns
    /\ \E r \in {train(NewStockPredictiveModel, inp, NoFail, runs + 1)} :
           /\ r.result.status = "success"
           /\ models' = EmptyDict
           /\ model_metadata' = EmptyDict
           /\ disk_model' = (s :> ValidFile(r.obj)) @@ disk_model
           /\ disk_meta' = disk_meta
    /\ last' = [NoOp EXCEPT !.op = "train_model_crash", !.sym = s,
                            !.trained = TRUE, !.memOk = TRUE, !.changed = TRUE]
    /\ runs' = runs + 1
    /\ torn' = runs + 1
    /\ prev' = Summary(last)
    /\ UNCHANGED <<now, spmVars, thrVars, fnVars, svcVars>>

GetPrediction(s, inp, est) ==
    /\ \E r \in {get_prediction(MgrState, s, inp, est)} :
           /\ Install(r.st)
           /\ last' = [NoOp EXCEPT
                  !.op = "get_prediction", !.sym = s,
                  !.status = r.result.status, !.keys = r.result.keys,
                  !.error = r.result.error,
                  !.pkeys = DOMAIN r.result.predictions,
                  !.predRuns = PredictionRuns(r.result.predictions),
                  !.metaRuns = MetadataRuns(r.result.metadata),
                  !.changed = (r.st # MgrState)]
    /\ prev' = Summary(last)
    /\ UNCHANGED <<now, runs, torn, spmVars, thrVars, fnVars, svcVars>>

RetrainIfNeeded(s, inp, fail, io, max_age_days) ==
    /\ RetrainTrains(MgrState, s, now, max_age_days) => runs < MaxRuns
    /\ \E r \in {retrain_if_needed(MgrState, s, inp, fail, io, max_age_days,
                                   now, runs + 1)} :
           /\ Install(r.st)
           /\ last' = [NoOp EXCEPT
                  !.op = "retrain_if_needed", !.sym = s, !.at = now,
                  !.max_age_days = max_age_days,
                  !.hadMeta = (s \in DOMAIN model_metadata),
                  !.elapsed = IF s \in DOMAIN model_metadata
                              THEN now - fromisoformat(model_metadata[s].last_trained)
                              ELSE 0,
                  !.trained = r.trained, !.memOk = r.memOk, !.io = r.io,
                  !.featuresFailed = (r.trained /\ FeaturesFail(inp)),
                  !.produced = IF r.trained
                               THEN TrainedPeriods(inp, fail, runs + 1)
                               ELSE {},
                  !.status = r.result.status, !.keys = r.result.keys,
                  !.changed = (r.st # MgrState),
                  !.updated = (r.trained /\ MetadataUpdated(MgrState, r.st, s))]
           /\ runs' = IF r.trained THEN runs + 1 ELSE runs
    /\ prev' = Summary(last)
    /\ UNCHANGED <<now, torn, spmVars, thrVars, fnVars, svcVars>>

\* What retrain_if_needed can be given: the data and the outcome of the
\* training matter only when it trains; otherwise one of each stands for all.
RetrainChoices(S, s, max_age_days) ==
    IF RetrainTrains(MgrState, s, now, max_age_days) THEN S
    ELSE {CHOOSE x \in S : TRUE}

GetModelMetadata(s) ==
    /\ \E r \in {get_model_metadata(MgrState, s)} :
           last' = [NoOp EXCEPT
               !.op = "get_model_metadata", !.sym = s,
               !.status = r.status, !.keys = r.keys,
               !.hadMeta = (s \in DOMAIN model_metadata)]
    /\ prev' = Summary(last)
    /\ UNCHANGED <<models, model_metadata, disk_model, disk_meta, now, runs,
                   torn, spmVars, thrVars, fnVars, svcVars>>

\* A new process constructs ModelManager(model_dir) on the same directory.
Restart ==
    /\ models' = EmptyDict
    /\ model_metadata' = EmptyDict
    /\ last' = [NoOp EXCEPT !.op = "restart"]
    /\ prev' = Summary(last)
    /\ UNCHANGED <<disk_model, disk_meta, now, runs, torn, spmVars, thrVars, fnVars, svcVars>>

\* Time passes between calls.
Tick ==
    /\ now < MaxTime
    /\ now' = now + 1
    /\ UNCHANGED <<models, model_metadata, disk_model, disk_meta, runs, last,
                   prev, torn, spmVars, thrVars, fnVars, svcVars>>

(***************************************************************************)
(* Two threads on one ModelManager: one inside train_model, one inside     *)
(* get_prediction, interleaved statement by statement.  Each holds its     *)
(* locals; the dicts and the directory are shared.                         *)
(***************************************************************************)
NoWrite ==
    [sym |-> "", obj |-> NewStockPredictiveModel,
     result |-> [status |-> "none", keys |-> {}, metrics |-> EmptyDict]]
NoRead ==
    [sym |-> "", obj |-> NewStockPredictiveModel,
     predictions |-> EmptyDict,
     result |-> [status |-> "none", keys |-> {}] @@ NoPrediction,
     overlapped |-> FALSE]

\* train_model lines 24-25: a new StockPredictiveModel is trained.
WTrain(s, inp, fail) ==
    /\ wpc = "idle"
    /\ runs < MaxRuns
    /\ \E r \in {train(NewStockPredictiveModel, inp, fail, runs + 1)} :
           /\ wlocal' = [sym |-> s, obj |-> r.obj, result |-> r.result]
           /\ wpc' = IF r.result.status = "success" THEN "set_model" ELSE "return"
    /\ runs' = runs + 1
    /\ rlocal' = IF rpc = "idle" THEN rlocal ELSE [rlocal EXCEPT !.overlapped = TRUE]
    /\ UNCHANGED <<models, model_metadata, disk_model, disk_meta, now, last, prev,
                   torn, rpc, spmVars, fnVars, svcVars>>

\* train_model line 29: self.models[symbol] = model
WSetModel ==
    /\ wpc = "set_model"
    /\ models' = (wlocal.sym :> wlocal.obj) @@ models
    /\ wpc' = "set_metadata"
    /\ UNCHANGED <<model_metadata, disk_model, disk_meta, now, runs, last, prev,
                   torn, wlocal, rpc, rlocal, spmVars, fnVars, svcVars>>

\* train_model lines 30-34: self.model_metadata[symbol] = {...}
WSetMetadata ==
    /\ wpc = "set_metadata"
    /\ model_metadata' =
           CacheTrained(MgrState, wlocal.sym, wlocal.obj, wlocal.result, now)
               .model_metadata
    /\ wpc' = "save"
    /\ UNCHANGED <<models, disk_model, disk_meta, now, runs, last, prev, torn,
                   wlocal, rpc, rlocal, spmVars, fnVars, svcVars>>

\* train_model lines 37-38: the two saves; an exception turns the result
\* into the error dict of the except clause.
WSave(io) ==
    /\ wpc = "save"
    /\ \E st \in {SaveToDisk([MgrState EXCEPT !.models =
                                 (wlocal.sym :> wlocal.obj) @@ models],
                             wlocal.sym, io)} :
           /\ disk_model' = st.disk_model
           /\ disk_meta' = st.disk_meta
    /\ wlocal' = IF io = "ok" THEN wlocal
                 ELSE [wlocal EXCEPT !.result = ErrorResult @@ [metrics |-> EmptyDict]]
    /\ wpc' = "return"
    /\ UNCHANGED <<models, model_metadata, now, runs, last, prev, torn,
                   rpc, rlocal, spmVars, fnVars, svcVars>>

\* train_model returns.
WReturn ==
    /\ wpc = "return"
    /\ wpc' = "idle"
    /\ wlocal' = NoWrite
    /\ UNCHANGED <<mgrVars, rpc, rlocal, spmVars, fnVars, svcVars>>

\* get_prediction lines 56-57: load the model if it is not in memory.
RLoad(s) ==
    /\ rpc = "idle"
    /\ \E ld \in {IF s \notin DOMAIN models THEN load_model(MgrState, s)
                  ELSE [raised |-> FALSE, st |-> MgrState]} :
           /\ models' = ld.st.models
           /\ model_metadata' = ld.st.model_metadata
           /\ rpc' = IF ld.raised THEN "return" ELSE "get_model"
           /\ rlocal' = [NoRead EXCEPT
                  !.sym = s,
                  !.result = IF ld.raised THEN ErrorResult @@ NoPrediction
                             ELSE NoRead.result,
                  !.overlapped = (wpc # "idle")]
    /\ UNCHANGED <<disk_model, disk_meta, now, runs, last, prev, torn,
                   wpc, wlocal, spmVars, fnVars, svcVars>>

\* get_prediction line 60: model = self.models[symbol]
RGetModel ==
    /\ rpc = "get_model"
    /\ IF rlocal.sym \in DOMAIN models
       THEN /\ rlocal' = [rlocal EXCEPT !.obj = models[rlocal.sym]]
            /\ rpc' = "predict"
       ELSE /\ rlocal' = [rlocal EXCEPT !.result = ErrorResult @@ NoPrediction]
            /\ rpc' = "return"
    /\ UNCHANGED <<mgrVars, wpc, wlocal, spmVars, fnVars, svcVars>>

\* The object a thread holds is the one the dict holds for its symbol.
SameObject(sym, obj) ==
    /\ sym \in DOMAIN models
    /\ models[sym].models = obj.models

\* get_prediction line 61: model.predict(...), which works on the object
\* the thread fetched; the dict sees the change if it still holds it.
RPredict(inp, est) ==
    /\ rpc = "predict"
    /\ \E r \in {predict(rlocal.obj, inp, est)} :
           /\ models' = IF SameObject(rlocal.sym, rlocal.obj)
                        THEN [models EXCEPT ![rlocal.sym] = r.obj]
                        ELSE models
           /\ wlocal' = IF wpc # "idle" /\ wlocal.obj.models = rlocal.obj.models
                        THEN [wlocal EXCEPT !.obj = r.obj]
                        ELSE wlocal
           /\ rlocal' = [rlocal EXCEPT
                  !.obj = r.obj,
                  !.predictions = r.result.predictions,
                  !.result = IF r.result.status = "success" THEN @
                             ELSE ErrorResult @@ NoPrediction]
           /\ rpc' = IF r.result.status = "success" THEN "format" ELSE "return"
    /\ UNCHANGED <<model_metadata, disk_model, disk_meta, now, runs, last, prev,
                   torn, wpc, spmVars, fnVars, svcVars>>

\* get_prediction lines 64-70: format, and read self.model_metadata[symbol].
RFormat ==
    /\ rpc = "format"
    /\ rlocal' = [rlocal EXCEPT !.result =
           IF rlocal.sym \in DOMAIN model_metadata
           THEN [status |-> "success",
                 keys |-> {"status", "predictions", "metadata"},
                 predictions |-> format_predictions(rlocal.predictions),
                 metadata |-> model_metadata[rlocal.sym]]
           ELSE ErrorResult @@ NoPrediction]
    /\ rpc' = "return"
    /\ UNCHANGED <<mgrVars, wpc, wlocal, spmVars, fnVars, svcVars>>

\* get_prediction returns.
RReturn ==
    /\ rpc = "return"
    /\ rpc' = "idle"
    /\ rlocal' = NoRead
    /\ UNCHANGED <<mgrVars, wpc, wlocal, spmVars, fnVars, svcVars>>

NextC ==
    \/ \E s \in Active, inp \in MgrTrainInputs, fail \in MgrFailPoints :
           WTrain(s, inp, fail)
    \/ WSetModel
    \/ WSetMetadata
    \/ \E io \in SaveOutcomes : WSave(io)
    \/ WReturn
    \/ \E s \in Active : RLoad(s)
    \/ RGetModel
    \/ \E inp \in MgrPredictInputs, est \in Estimators : RPredict(inp, est)
    \/ RFormat
    \/ RReturn

(***************************************************************************)
(* Functions called on their own, one call in a behaviour.  fcall records  *)
(* the call: the function, its argument and what it returned.              *)
(***************************************************************************)
NoFn == [op |-> "none"]

\* _categorize_risk.  Scores are held in hundredths: 20 stands for 0.2.
\* A variant whose thresholds include their upper bound comes first.
categorize_risk_inclusive(risk_score) ==
    IF risk_score <= 20 THEN "Very Low"
    ELSE IF risk_score <= 40 THEN "Low"
    ELSE IF risk_score <= 60 THEN "Moderate"
    ELSE IF risk_score <= 80 THEN "High"
    ELSE "Very High"

categorize_risk(risk_score) ==
    IF risk_score < 20 THEN "Very Low"
    ELSE IF risk_score < 40 THEN "Low"
    ELSE IF risk_score < 60 THEN "Moderate"
    ELSE IF risk_score < 80 THEN "High"
    ELSE "Very High"

Scores == (0 - ScoreMargin)..(100 + ScoreMargin)
RiskLevels == {"Very Low", "Low", "Moderate", "High", "Very High"}

FCategorizeRisk(score) ==
    /\ fcall = NoFn
    /\ fcall' = [op |-> "_categorize_risk", arg |-> score,
                 out |-> categorize_risk(score)]
    /\ UNCHANGED <<mgrVars, spmVars, thrVars, svcVars>>

\* create_sentiment_features.  A number is held as the pair <<numerator,
\* denominator>>, a standard deviation as <<"sqrt", numerator, denominator>>
\* of its variance; NaN and Inf are the values pandas gives for 0/0, for a
\* statistic of too few values, and for x/0.
NaN == <<"nan">>
Inf == <<"inf">>

SentimentLabels == {"positive", "neutral", "negative"}
SentimentRecord == [sentiment : SentimentLabels, confidence : {0, 1}, volume : {0, 1}]
SentimentLists == UNION { [1..n -> SentimentRecord] : n \in 0..MaxRecords }

\* .map({'positive': 1, 'neutral': 0, 'negative': -1})
sentiment_map == "positive" :> 1 @@ "neutral" :> 0 @@ "negative" :> (0 - 1)

RECURSIVE SumSeq(_)
SumSeq(xs) == IF xs = <<>> THEN 0 ELSE Head(xs) + SumSeq(Tail(xs))

\* a / b on two pandas sums
Divide(a, b) == IF b # 0 THEN <<a, b>> ELSE IF a = 0 THEN NaN ELSE Inf
\* Series.mean(): NaN for a series without values
Mean(xs) == IF xs = <<>> THEN NaN ELSE <<SumSeq(xs), Len(xs)>>
\* Series.std(): sample standard deviation, NaN for fewer than two values
Std(xs) ==
    IF Len(xs) < 2 THEN NaN
    ELSE <<"sqrt",
           Len(xs) * SumSeq([i \in 1..Len(xs) |-> xs[i] * xs[i]])
               - SumSeq(xs) * SumSeq(xs),
           Len(xs) * (Len(xs) - 1)>>
\* Series.diff() without its leading NaN, which mean() skips
Diff(xs) == [i \in 1..(Len(xs) - 1) |-> xs[i + 1] - xs[i]]
Indicator(b) == IF b THEN 1 ELSE 0

create_sentiment_features(sentiment_data) ==
    IF sentiment_data = <<>>
    THEN [raised |-> TRUE, features |-> EmptyDict]      \* KeyError: 'sentiment'
    ELSE
      LET n == Len(sentiment_data)
          sentiment_score ==
              [i \in 1..n |-> sentiment_map[sentiment_data[i].sentiment]]
          weighted_sentiment ==
              [i \in 1..n |-> sentiment_score[i] * sentiment_data[i].confidence]
          volume == [i \in 1..n |-> sentiment_data[i].volume]
      IN  [raised |-> FALSE,
           features |->
             [avg_sentiment |-> Mean(sentiment_score),
              weighted_avg_sentiment |->
                  Divide(SumSeq([i \in 1..n |-> weighted_sentiment[i] * volume[i]]),
                         SumSeq(volume)),
              sentiment_volatility |-> Std(sentiment_score),
              sentiment_momentum |-> Mean(Diff(sentiment_score)),
              positive_ratio |->
                  Mean([i \in 1..n |-> Indicator(sentiment_score[i] > 0)]),
              negative_ratio |->
                  Mean([i \in 1..n |-> Indicator(sentiment_score[i] < 0)])]]

SentimentKeys ==
    {"avg_sentiment", "weighted_avg_sentiment", "sentiment_volatility",
     "sentiment_momentum", "positive_ratio", "negative_ratio"}

FCreateSentimentFeatures(sentiment_data) ==
    /\ fcall = NoFn
    /\ fcall' = [op |-> "create_sentiment_features", arg |-> sentiment_data,
                 out |-> create_sentiment_features(sentiment_data)]
    /\ UNCHANGED <<mgrVars, spmVars, thrVars, svcVars>>

\* prepare_features, seen by its missing values.  A frame is known by its
\* number of rows; a column computed from the history holds NaN on its
\* leading rows, a sentiment or market column holds one scalar on every row.
windows == <<5, 10, 20, 50>>
LargestWindow == 50

\* The window of a ta indicator: the one the call names, or a default of the
\* library, none of which is longer than the largest window.
IndicatorWindow(col) ==
    CASE col = "sma_20" -> 20
      [] col = "sma_50" -> 50
      [] col = "ema_20" -> 20
      [] OTHER -> LargestWindow

\* Leading rows of a price column that hold NaN: pct_change() leaves one,
\* rolling(w) over returns leaves w, rolling(w) over high and low leaves
\* w - 1.
PriceLeadingNaN ==
    [c \in {"returns", "log_returns"} |-> 1]
    @@ [c \in {"volatility_5d", "momentum_5d"} |-> windows[1]]
    @@ [c \in {"volatility_10d", "momentum_10d"} |-> windows[2]]
    @@ [c \in {"volatility_20d", "momentum_20d"} |-> windows[3]]
    @@ [c \in {"volatility_50d", "momentum_50d"} |-> windows[4]]
    @@ ("price_range_5d" :> windows[1] - 1)
    @@ ("price_range_10d" :> windows[2] - 1)
    @@ ("price_range_20d" :> windows[3] - 1)
    @@ ("price_range_50d" :> windows[4] - 1)
    @@ [c \in {"distance_from_high", "distance_from_low"} |-> 20 - 1]

LeadingNaN(col) ==
    IF col \in DOMAIN PriceLeadingNaN THEN PriceLeadingNaN[col]
    ELSE IndicatorWindow(col) - 1

\* f'sentiment_{col}'
SentimentColumn ==
    "avg_sentiment" :> "sentiment_avg_sentiment"
    @@ "weighted_avg_sentiment" :> "sentiment_weighted_avg_sentiment"
    @@ "sentiment_volatility" :> "sentiment_sentiment_volatility"
    @@ "sentiment_momentum" :> "sentiment_sentiment_momentum"
    @@ "positive_ratio" :> "sentiment_positive_ratio"
    @@ "negative_ratio" :> "sentiment_negative_ratio"

\* fillna(ffill) then fillna(bfill) fills every NaN of a column that holds
\* a value on some row; StandardScaler passes NaN through.  The columns of
\* the returned matrix that still hold NaN:
MissingColumns(rows, features) ==
    { c \in Range(TechnicalCols \o PriceCols) : rows <= LeadingNaN(c) }
        \cup { SentimentColumn[k] : k \in { j \in DOMAIN features : features[j] = NaN } }

\* prepare_features on a history of `rows` rows that holds the raw columns.
prepare_features_missing(rows, sentiment_data) ==
    LET sf == create_sentiment_features(sentiment_data)
    IN  IF sf.raised THEN [raised |-> TRUE, missing |-> {}]
        ELSE [raised |-> FALSE, missing |-> MissingColumns(rows, sf.features)]

Max(S) == CHOOSE x \in S : \A y \in S : y <= x
\* max(horizons) + largest window
ValidRows == Max(Periods) + LargestWindow
HistoryRows == {LargestWindow, LargestWindow + 1, ValidRows, ValidRows + 1}

FPrepareFeatures(rows, sentiment_data) ==
    /\ fcall = NoFn
    /\ fcall' = [op |-> "prepare_features",
                 arg |-> [rows |-> rows, sentiment_data |-> sentiment_data],
                 out |-> prepare_features_missing(rows, sentiment_data)]
    /\ UNCHANGED <<mgrVars, spmVars, thrVars, svcVars>>

\* create_targets on a matrix of N rows without missing values, seen by the
\* rows that hold a value.  pct_change(p) has none on its first p rows;
\* rolling(p).std() has none on its first p - 1 rows, and none at all for
\* p = 1, the sample deviation of one value; shift(-p) moves row t + p to
\* row t.
PctChangeValid(N, p) == (p + 1)..N
RollingStdValid(N, p) == IF p < 2 THEN {} ELSE p..N
ShiftBack(valid, p, N) == { t \in 1..N : t + p \in valid }

\* The rows dropna() keeps.
create_targets(N, periods) ==
    { t \in 1..N :
        \A i \in 1..Len(periods) :
            /\ t \in ShiftBack(PctChangeValid(N, periods[i]), periods[i], N)
            /\ t \in ShiftBack(RollingStdValid(N, periods[i]), periods[i], N) }

FCreateTargets(N) ==
    /\ fcall = NoFn
    /\ fcall' = [op |-> "create_targets", arg |-> N,
                 out |-> create_targets(N, forecast_periods)]
    /\ UNCHANGED <<mgrVars, spmVars, thrVars, svcVars>>

\* The cross-validation of _train_model.  X is known by the date of each of
\* its rows, in the order of the rows.
n_splits == 5

Indices(a, b) == [i \in 1..(b - a + 1) |-> a + i - 1]

\* A split that validates on each block and trains on all the other rows.
KFoldSplit(n) ==
    IF n_splits + 1 > n THEN [raised |-> TRUE, folds |-> <<>>]
    ELSE LET test_size == n \div (n_splits + 1)
             start(k) == n - n_splits * test_size + (k - 1) * test_size
         IN  [raised |-> FALSE,
              folds |-> [k \in 1..n_splits |->
                  [train |-> Indices(1, start(k))
                                 \o Indices(start(k) + test_size + 1, n),
                   val |-> Indices(start(k) + 1, start(k) + test_size)]]]

\* TimeSeriesSplit(n_splits=5).split(X) on n rows: ValueError for fewer
\* rows than folds; else fold k validates on the k-th of the last n_splits
\* blocks of n // (n_splits + 1) rows and trains on all rows before it.
TimeSeriesSplit(n) ==
    IF n_splits + 1 > n THEN [raised |-> TRUE, folds |-> <<>>]
    ELSE LET test_size == n \div (n_splits + 1)
             start(k) == n - n_splits * test_size + (k - 1) * test_size
         IN  [raised |-> FALSE,
              folds |-> [k \in 1..n_splits |->
                  [train |-> Indices(1, start(k)),
                   val |-> Indices(start(k) + 1, start(k) + test_size)]]]

\* X.iloc[idx]
iloc(X, idx) == [i \in 1..Len(idx) |-> X[idx[i]]]

\* The rows each fold of a trial fits on and scores on.
cross_validation(X) ==
    LET tscv == TimeSeriesSplit(Len(X))
    IN  [raised |-> tscv.raised,
         folds |-> [k \in 1..Len(tscv.folds) |->
             [train |-> iloc(X, tscv.folds[k].train),
              val |-> iloc(X, tscv.folds[k].val)]]]

\* The rows of a date-ordered frame: strictly increasing dates.
RECURSIVE SortedSeq(_)
SortedSeq(S) ==
    IF S = {} THEN <<>>
    ELSE LET m == CHOOSE x \in S : \A y \in S : x <= y
         IN  <<m>> \o SortedSeq(S \ {m})
Frames == { SortedSeq(S) : S \in SUBSET (1..MaxDate) }

FTrainModel(X) ==
    /\ fcall = NoFn
    /\ fcall' = [op |-> "_train_model", arg |-> X, out |-> cross_validation(X)]
    /\ UNCHANGED <<mgrVars, spmVars, thrVars, svcVars>>

NextF ==
    \/ \E score \in Scores : FCategorizeRisk(score)
    \/ \E sentiment_data \in SentimentLists :
           FCreateSentimentFeatures(sentiment_data)
    \/ \E rows \in HistoryRows, sentiment_data \in SentimentLists :
           FPrepareFeatures(rows, sentiment_data)
    \/ \E N \in 1..MaxRows : FCreateTargets(N)
    \/ \E X \in Frames : FTrainModel(X)

(***************************************************************************)
(* One train call, step by step: the loop over forecast_periods, and in    *)
(* _train_model the trials of study.optimize and the fit of the best       *)
(* model.  Whether a fit returns or raises is an input of the step.        *)
(***************************************************************************)
n_trials == 50
Tasks == <<"growth", "risk">>

NoSearch ==
    [pc |-> "idle", period |-> 0, task |-> 0, trials |-> 0, searches |-> 0,
     refits |-> 0]

\* study.optimize(objective, n_trials=50) goes on to another trial.  A
\* variant that runs one trial more comes first.
MoreTrialsInclusive(trials) == trials <= n_trials
MoreTrials(trials) == trials < n_trials

\* train lines 29-38: features and targets, then the first _train_model.
TBegin(ok) ==
    /\ search.pc = "idle"
    /\ search' = IF ok
                 THEN [NoSearch EXCEPT !.pc = "optimize", !.period = 1,
                                       !.task = 1, !.searches = 1]
                 ELSE [NoSearch EXCEPT !.pc = "error"]
    /\ UNCHANGED <<coreVars, httpVars, queueVars, redisVars>>

\* One trial of study.optimize: objective(trial) returns a score or raises.
TTrial(ok) ==
    /\ search.pc = "optimize"
    /\ MoreTrials(search.trials)
    /\ search' = IF ok THEN [search EXCEPT !.trials = @ + 1]
                 ELSE [search EXCEPT !.trials = @ + 1, !.pc = "error"]
    /\ UNCHANGED <<coreVars, httpVars, queueVars, redisVars>>

\* _train_model lines 158-170: the best model is created, fitted once,
\* scored and logged.
TRefit(ok) ==
    /\ search.pc = "optimize"
    /\ ~MoreTrials(search.trials)
    /\ search' = IF ok THEN [search EXCEPT !.refits = @ + 1, !.pc = "fitted"]
                 ELSE [search EXCEPT !.refits = @ + 1, !.pc = "error"]
    /\ UNCHANGED <<coreVars, httpVars, queueVars, redisVars>>

\* train lines 45-65: after the growth model the risk model of the period;
\* after the risk model the feature importance, then the next period or the
\* success result.
TNext(ok) ==
    /\ search.pc = "fitted"
    /\ search' =
         IF search.task < Len(Tasks)
         THEN [search EXCEPT !.task = @ + 1, !.trials = 0, !.searches = @ + 1,
                             !.pc = "optimize"]
         ELSE IF ~ok THEN [search EXCEPT !.pc = "error"]
         ELSE IF search.period < Len(forecast_periods)
         THEN [search EXCEPT !.period = @ + 1, !.task = 1, !.trials = 0,
                             !.searches = @ + 1, !.pc = "optimize"]
         ELSE [search EXCEPT !.pc = "done"]
    /\ UNCHANGED <<coreVars, httpVars, queueVars, redisVars>>

NextT ==
    \/ \E ok \in BOOLEAN : TBegin(ok)
    \/ \E ok \in BOOLEAN : TTrial(ok)
    \/ \E ok \in BOOLEAN : TRefit(ok)
    \/ \E ok \in BOOLEAN : TNext(ok)

(***************************************************************************)
(* main.py: the /chat, /upload and /qa endpoints.  The endpoints are plain *)
(* functions, which the server runs on a pool of threads: two /upload      *)
(* requests interleave between any two statements.  What the AI service    *)
(* call does (return, or raise an exception of some class) is an input.    *)
(***************************************************************************)
MaxUploads == 3
Requests == 1..MaxUploads

\* The exception classes of the handler and their base classes: the
\* imported anthropic classes derive APITimeoutError from
\* APIConnectionError and both from APIError.
Base ==
    [c \in {"APITimeoutError", "APIConnectionError", "APIStatusError",
            "APIError", "IndexError"} |->
        CASE c = "APITimeoutError" -> "APIConnectionError"
          [] c = "APIConnectionError" -> "APIError"
          [] c = "APIStatusError" -> "APIError"
          [] OTHER -> "Exception"]
Raised == DOMAIN Base

RECURSIVE IsInstance(_, _)
IsInstance(cls, target) ==
    \/ cls = target
    \/ cls /= "Exception" /\ IsInstance(Base[cls], target)

\* The except clauses of chat, in the order of the source.
Handlers ==
    <<[cls |-> "APIConnectionError", status_code |-> 503,
       error_type |-> "connection_error"],
      [cls |-> "APITimeoutError", status_code |-> 504,
       error_type |-> "timeout_error"],
      [cls |-> "APIError", status_code |-> 500, error_type |-> "api_error"],
      [cls |-> "Exception", status_code |-> 500,
       error_type |-> "internal_error"]>>

\* The first except clause that matches the raised class.
Caught(cls) ==
    Handlers[CHOOSE i \in 1..Len(Handlers) :
                 /\ IsInstance(cls, Handlers[i].cls)
                 /\ \A j \in 1..(i - 1) : ~IsInstance(cls, Handlers[j].cls)]

NoResponse ==
    [endpoint |-> "none", raised |-> "none", status_code |-> 0,
     error_type |-> "none", status |-> "none", calls |-> 0,
     document_index |-> 0, ndocs |-> 0, document |-> 0]

\* chat: one client.messages.create call; outcome is "ok" or the class
\* raised inside the try block.
chat(outcome) ==
    IF outcome = "ok"
    THEN [NoResponse EXCEPT !.endpoint = "chat", !.status_code = 200,
                            !.status = "success", !.calls = 1]
    ELSE [NoResponse EXCEPT !.endpoint = "chat", !.raised = outcome,
                            !.status_code = Caught(outcome).status_code,
                            !.error_type = Caught(outcome).error_type,
                            !.status = "error", !.calls = 1]

Chat(outcome) ==
    /\ response' = chat(outcome)
    /\ UNCHANGED <<coreVars, searchVars, queueVars, redisVars, processed_documents, uploads>>

NoUpload == [pc |-> "idle", document_index |-> 0]

\* upload_file lines 151-166: the document is read and appended to the
\* list; a failure before that is answered with 500.
UploadStore(r, ok) ==
    /\ uploads[r].pc = "idle"
    /\ IF ok
       THEN /\ processed_documents' = Append(processed_documents, r)
            /\ uploads' = [uploads EXCEPT ![r].pc = "stored"]
       ELSE /\ uploads' = [uploads EXCEPT ![r].pc = "failed"]
            /\ UNCHANGED processed_documents
    /\ UNCHANGED <<coreVars, searchVars, queueVars, redisVars, response>>

\* upload_file lines 168-177: the temporary file is removed and the index
\* is computed from the length the list has by then.
UploadReturn(r) ==
    /\ uploads[r].pc = "stored"
    /\ uploads' = [uploads EXCEPT
                     ![r] = [pc |-> "returned",
                             document_index |-> Len(processed_documents) - 1]]
    /\ UNCHANGED <<coreVars, searchVars, queueVars, redisVars, processed_documents, response>>

\* list[i] of Python: positions count from 0, a negative i counts from the
\* end, anything else raises IndexError.
getitem(list, i) ==
    IF 0 <= i /\ i < Len(list) THEN [raised |-> FALSE, value |-> list[i + 1]]
    ELSE IF -Len(list) <= i /\ i < 0
    THEN [raised |-> FALSE, value |-> list[Len(list) + i + 1]]
    ELSE [raised |-> TRUE, value |-> 0]

Indexes == (-(MaxUploads + 1))..(MaxUploads + 1)

\* qa_endpoint; ok tells whether the AI service call and the construction
\* of the response (lines 213-224) return.
qa_endpoint(docs, document_index, ok) ==
    LET base == [NoResponse EXCEPT !.endpoint = "qa",
                                   !.document_index = document_index,
                                   !.ndocs = Len(docs), !.status = "error"]
        item == getitem(docs, document_index)
    IN  IF docs = <<>> THEN [base EXCEPT !.status_code = 400]
        ELSE IF document_index >= Len(docs)
        THEN [base EXCEPT !.status_code = 400]
        ELSE IF item.raised
        THEN [base EXCEPT !.status_code = 500, !.raised = "IndexError"]
        ELSE IF ok
        THEN [base EXCEPT !.status_code = 200, !.status = "success",
                          !.calls = 1, !.document = item.value]
        ELSE [base EXCEPT !.status_code = 500, !.raised = "Exception",
                          !.calls = 1, !.document = item.value]

Qa(document_index, ok) ==
    /\ response' = qa_endpoint(processed_documents, document_index, ok)
    /\ UNCHANGED <<coreVars, searchVars, queueVars, redisVars, processed_documents, uploads>>

NextH ==
    \/ \E outcome \in {"ok"} \cup Raised : Chat(outcome)
    \/ \E r \in Requests, ok \in BOOLEAN : UploadStore(r, ok)
    \/ \E r \in Requests : UploadReturn(r)
    \/ \E i \in Indexes, ok \in BOOLEAN : Qa(i, ok)

(***************************************************************************)
(* orchestrator.py: process_queue.  The queue holds messages that are      *)
(* visible, in flight (received and not deleted) or deleted; a message in  *)
(* flight becomes visible again when its visibility timeout runs out.      *)
(* Whether a Redis or SQS call returns or raises is an input of the step.  *)
(***************************************************************************)
MaxMessages == 2
Bodies == {"symbol", "nosymbol", "malformed"}

Waiting == [pc |-> "receive", batch |-> <<>>, i |-> 0]

RECURSIVE InOrder(_)
InOrder(S) ==
    IF S = {} THEN <<>>
    ELSE LET m == CHOOSE x \in S : \A y \in S : x <= y
         IN  <<m>> \o InOrder(S \ {m})

Visible == {m \in DOMAIN sqs : sqs[m].state = "visible"}
StateOf(m) == IF m \in DOMAIN sqs THEN sqs[m].state ELSE "unsent"

\* A client puts a request on the queue.
Send(body) ==
    /\ Len(sqs) < MaxMessages
    /\ sqs' = Append(sqs, [body |-> body, state |-> "visible"])
    /\ UNCHANGED <<coreVars, searchVars, httpVars, redisVars, worker, analysis>>

\* The visibility timeout of a message in flight runs out.
Redeliver(m) ==
    /\ m \in DOMAIN sqs
    /\ sqs[m].state = "inflight"
    /\ sqs' = [sqs EXCEPT ![m].state = "visible"]
    /\ UNCHANGED <<coreVars, searchVars, httpVars, redisVars, worker, analysis>>

\* process_queue lines 154-160: receive_message returns some of the
\* visible messages, possibly none.
Receive(B) ==
    /\ worker.pc = "receive"
    /\ B \subseteq Visible
    /\ sqs' = [m \in DOMAIN sqs |->
                 IF m \in B THEN [sqs[m] EXCEPT !.state = "inflight"]
                 ELSE sqs[m]]
    /\ worker' = [pc |-> "body", batch |-> InOrder(B), i |-> 1]
    /\ UNCHANGED <<coreVars, searchVars, httpVars, redisVars, analysis>>

\* Lines 162-176 for the next message of the batch: json.loads raises on
\* a malformed body, which abandons the batch (lines 184-186); a body
\* without a symbol is passed over; otherwise the analysis is made and
\* stored with setex.
Handle(ok) ==
    /\ worker.pc = "body"
    /\ worker.i <= Len(worker.batch)
    /\ LET body == sqs[worker.batch[worker.i]].body
       IN  IF body = "malformed"
           THEN worker' = Waiting /\ UNCHANGED analysis
           ELSE IF body = "nosymbol"
           THEN worker' = [worker EXCEPT !.i = @ + 1] /\ UNCHANGED analysis
           ELSE IF ok
           THEN /\ analysis' = analysis \cup {worker.batch[worker.i]}
                /\ worker' = [worker EXCEPT !.pc = "delete"]
           ELSE worker' = Waiting /\ UNCHANGED analysis
    /\ UNCHANGED <<coreVars, searchVars, httpVars, redisVars, sqs>>

\* Lines 178-182: delete_message for the message just stored.
Delete(ok) ==
    /\ worker.pc = "delete"
    /\ IF ok
       THEN /\ sqs' = [sqs EXCEPT ![worker.batch[worker.i]].state = "deleted"]
            /\ worker' = [worker EXCEPT !.pc = "body", !.i = @ + 1]
       ELSE worker' = Waiting /\ UNCHANGED sqs
    /\ UNCHANGED <<coreVars, searchVars, httpVars, redisVars, analysis>>

\* The for loop is over: back to receive_message.
EndBatch ==
    /\ worker.pc = "body"
    /\ worker.i > Len(worker.batch)
    /\ worker' = Waiting
    /\ UNCHANGED <<coreVars, searchVars, httpVars, redisVars, sqs, analysis>>

WorkerStep ==
    \/ \E B \in SUBSET (1..MaxMessages) : Receive(B)
    \/ \E ok \in BOOLEAN : Handle(ok)
    \/ \E ok \in BOOLEAN : Delete(ok)
    \/ EndBatch

NextQ ==
    \/ \E body \in Bodies : Send(body)
    \/ \E m \in 1..MaxMessages : Redeliver(m)
    \/ WorkerStep

(***************************************************************************)
(* api/dependencies.py: get_redis_client and close_redis_client.  They are *)
(* coroutines of one event loop: a coroutine runs without interruption     *)
(* from one await to the next, and at an await another coroutine may run.  *)
(***************************************************************************)
MaxCallers == 3
MaxClients == 3
Callers == 1..MaxCallers
None == 0

NoGet == [pc |-> "idle", client |-> None]

\* get_redis_client lines 28-30, up to the await: with a client in place
\* it is returned at once; with None a client is made by from_url and
\* awaited.
GetCheck(c) ==
    /\ callers[c].pc = "idle"
    /\ IF redis_client = None
       THEN /\ pool.total < MaxClients
            /\ pool' = [pool EXCEPT !.total = @ + 1,
                                    !.created = @ \cup {pool.total + 1}]
            /\ callers' = [callers EXCEPT
                             ![c] = [pc |-> "creating",
                                     client |-> pool.total + 1]]
       ELSE /\ callers' = [callers EXCEPT
                             ![c] = [pc |-> "returned",
                                     client |-> redis_client]]
            /\ UNCHANGED pool
    /\ UNCHANGED <<coreVars, searchVars, httpVars, queueVars, redis_client>>

\* Lines 30-31 after the await: the global is assigned and returned.
GetAssign(c) ==
    /\ callers[c].pc = "creating"
    /\ redis_client' = callers[c].client
    /\ callers' = [callers EXCEPT ![c].pc = "returned"]
    /\ UNCHANGED <<coreVars, searchVars, httpVars, queueVars, pool>>

\* close_redis_client lines 40-42, up to the await of close().
CloseBegin ==
    /\ ~pool.closing
    /\ redis_client /= None
    /\ pool' = [pool EXCEPT !.closing = TRUE]
    /\ UNCHANGED <<coreVars, searchVars, httpVars, queueVars, redis_client,
                   callers>>

\* Line 43: the global is set to None.  The calls that returned before
\* the close are over.
CloseEnd ==
    /\ pool.closing
    /\ redis_client' = None
    /\ pool' = [pool EXCEPT !.closing = FALSE, !.created = {}]
    /\ callers' = [c \in Callers |->
                     IF callers[c].pc = "returned" THEN NoGet
                     ELSE callers[c]]
    /\ UNCHANGED <<coreVars, searchVars, httpVars, queueVars>>

NextR ==
    \/ \E c \in Callers : GetCheck(c)
    \/ \E c \in Callers : GetAssign(c)
    \/ CloseBegin
    \/ CloseEnd

Init ==
    /\ models = EmptyDict
    /\ model_metadata = EmptyDict
    /\ disk_model = EmptyDict
    /\ disk_meta = EmptyDict
    /\ now = 0
    /\ runs = 0
    /\ last = NoOp
    /\ prev = Summary(NoOp)
    /\ torn = 0
    /\ spm = NewStockPredictiveModel
    /\ pres = NoCall
    /\ pruns = 0
    /\ wpc = "idle"
    /\ wlocal = NoWrite
    /\ rpc = "idle"
    /\ rlocal = NoRead
    /\ fcall = NoFn
    /\ search = NoSearch
    /\ processed_documents = <<>>
    /\ uploads = [r \in Requests |-> NoUpload]
    /\ response = NoResponse
    /\ sqs = <<>>
    /\ worker = Waiting
    /\ analysis = {}
    /\ redis_client = None
    /\ callers = [c \in Callers |-> NoGet]
    /\ pool = [created |-> {}, total |-> 0, closing |-> FALSE]

Next ==
    \/ \E s \in Active, inp \in MgrTrainInputs, o \in MgrOutcomes :
           TrainModel(s, inp, o.fail, o.io)
    \/ \E s \in Active, inp \in MgrTrainInputs : TrainModelCrash(s, inp)
    \/ \E s \in Active, inp \in MgrPredictInputs, est \in Estimators :
           GetPrediction(s, inp, est)
    \/ \E s \in Active, max_age_days \in 0..MaxAgeDays :
           \E inp \in RetrainChoices(MgrTrainInputs, s, max_age_days),
              o \in RetrainChoices(MgrOutcomes, s, max_age_days) :
               RetrainIfNeeded(s, inp, o.fail, o.io, max_age_days)
    \/ \E s \in Active : GetModelMetadata(s)
    \/ Restart
    \/ Tick

Spec == Init /\ [][Next]_vars

\* Callers that use one ModelManager for two symbols, at one instant: how
\* their trainings go and what the fitted estimators do.
SOutcomes ==
    { [fail |-> NoFail, io |-> "ok"],
      [fail |-> NoFail, io |-> "meta_write"],
      [fail |-> [period |-> 10, stage |-> "risk"], io |-> "none"] }
SEstimators == { e \in Estimators : e.namecheck }

\* A call of a public method for symbol s.
CallOn(s) ==
    \/ \E inp \in MgrPredictInputs, est \in SEstimators :
           GetPrediction(s, inp, est)
    \/ \E inp \in {i \in MgrTrainInputs : i.sentiment = "records"},
          o \in SOutcomes :
           \/ TrainModel(s, inp, o.fail, o.io)
           \/ RetrainIfNeeded(s, inp, o.fail, o.io, 0)
    \/ GetModelMetadata(s)

NextS ==
    \/ \E s \in Symbols : CallOn(s)
    \/ Restart

SpecS == Init /\ [][NextS]_vars

\* A StockPredictiveModel used on its own.
SpecP == Init /\ [][NextP]_vars

\* A training thread and a predicting thread on one ModelManager.
SpecC == Init /\ [][NextC]_vars

\* The functions of the pipeline called on their own.
SpecF == Init /\ [][NextF]_vars

\* process_queue; the worker goes on running, timeouts run out, and a call
\* to SQS or Redis that is made again and again does not fail every time.
SpecQ ==
    /\ Init
    /\ [][NextQ]_vars
    /\ WF_vars(WorkerStep)
    /\ SF_vars(Visible /= {} /\ Receive(Visible))
    /\ SF_vars(Handle(TRUE))
    /\ SF_vars(Delete(TRUE))
    /\ \A m \in 1..MaxMessages : WF_vars(Redeliver(m))

\* The calls of get_redis_client and close_redis_client on one event loop.
SpecR == Init /\ [][NextR]_vars

\* The endpoints of main.py under concurrent requests.
SpecH == Init /\ [][NextH]_vars

\* One train call; a step that can be taken is taken in the end.
SpecT == Init /\ [][NextT]_vars /\ WF_vars(NextT)

(***************************************************************************)
(* Properties                                                              *)
(***************************************************************************)
AllPeriodKeys == { PeriodKey(p) : p \in Periods }
AllPeriodNames == { period_names[k] : k \in AllPeriodKeys }

C2_NoMixedServeAfterTornSave ==
    (torn # 0 /\ last.op = "get_prediction" /\ last.status = "success") =>
        last.predRuns = last.metaRuns

\* C3: a get_prediction that overlaps a train_model of the same symbol and
\* returns success has computed its predictions and taken its metadata from
\* the same training run.
C3_ReaderSeesOneVersion ==
    (rpc = "return" /\ rlocal.overlapped /\ rlocal.result.status = "success") =>
        PredictionRuns(rlocal.result.predictions)
            = MetadataRuns(rlocal.result.metadata)

\* C4: when training the growth or risk task of one horizon fails, every
\* other configured horizon has been trained by this call and its models
\* registered.
C4_SiblingHorizonsStillTrained ==
    (pres.op = "train" /\ pres.fail.stage \in {"growth", "risk"}) =>
        (Periods \ {pres.fail.period}) \subseteq pres.produced

\* C5: train returns success whenever this call produced an artifact for at
\* least one horizon, and its result has an entry for every configured
\* horizon.
C5_SuccessIfAnyHorizonTrained ==
    (pres.op = "train" /\ pres.produced # {}) =>
        (pres.status = "success" /\ pres.horizons = AllPeriodKeys)

\* C6: a get_prediction on the latest rows that follows a successful
\* train_model of the same symbol returns success with one prediction per
\* configured horizon.
C6_RoundTrip ==
    (/\ last.op = "get_prediction"
     /\ prev.op = "train_model"
     /\ prev.status = "success"
     /\ prev.sym = last.sym) =>
        (last.status = "success" /\ last.pkeys = AllPeriodNames)

\* C7: when the inference frame yields a feature schema other than the one
\* the estimators were fitted on, predict returns an error without
\* predictions and no estimator has scored the row.
C7_SchemaMismatchIsError ==
    (pres.op = "predict" /\ pres.mismatch) =>
        (pres.status = "error" /\ pres.preds = {} /\ ~pres.scored)

\* C8: when the model lacks the growth or risk artifact of any configured
\* horizon, predict returns an error that carries no predictions.
C8_MissingArtifactNoPartialResult ==
    (pres.op = "predict" /\ pres.lacking) =>
        (pres.status = "error" /\ pres.preds = {} /\ "predictions" \notin pres.keys)

\* predict ran on a model that holds some horizons and lacks others.
C8_Witness ==
    /\ pres.op = "predict"
    /\ pres.lacking
    /\ pres.held # {}
    /\ pres.scored

\* C9: when training succeeded in memory and a save failed, the result of
\* train_model is not the plain error result of a failed training.
C9_SaveFailureDistinguishable ==
    (last.op = "train_model" /\ last.memOk /\ last.io # "ok") =>
        ~(last.status = "error" /\ last.keys = ErrorResult.keys)

C11_RiskThresholds ==
    fcall.op = "_categorize_risk" =>
        /\ fcall.out \in RiskLevels
        /\ fcall.arg < 20 <=> fcall.out = "Very Low"
        /\ (20 <= fcall.arg /\ fcall.arg < 40) <=> fcall.out = "Low"
        /\ (40 <= fcall.arg /\ fcall.arg < 60) <=> fcall.out = "Moderate"
        /\ (60 <= fcall.arg /\ fcall.arg < 80) <=> fcall.out = "High"
        /\ 80 <= fcall.arg <=> fcall.out = "Very High"
        /\ fcall.arg = 0 => fcall.out = "Very Low"
        /\ fcall.arg = 100 => fcall.out = "Very High"

\* The score 0.2 has been categorized as Low.
C11_Witness ==
    /\ fcall.op = "_categorize_risk"
    /\ fcall.arg = 20
    /\ fcall.out = "Low"

\* C16: create_sentiment_features, and so prepare_features, called with an
\* empty sentiment record list raises nothing and returns a sentiment
\* feature block with every sentiment column present.
C16_EmptySentimentGivesDefaults ==
    /\ (fcall.op = "create_sentiment_features" /\ fcall.arg = <<>>) =>
           (~fcall.out.raised /\ DOMAIN fcall.out.features = SentimentKeys)
    /\ (fcall.op = "prepare_features" /\ fcall.arg.sentiment_data = <<>>) =>
           ~fcall.out.raised

\* C17: for a history of at least max(horizons) + largest-window rows and
\* any sentiment record list that holds a record, the matrix prepare_features
\* returns has no missing value in any column.
C17_NoMissingValues ==
    (/\ fcall.op = "prepare_features"
     /\ fcall.arg.rows >= ValidRows
     /\ fcall.arg.sentiment_data # <<>>) =>
        (~fcall.out.raised /\ fcall.out.missing = {})

\* C18: create_targets on a matrix of N rows without missing values and
\* horizons 1, 5, 10, 20 keeps exactly the first N - 20 rows.
C18_KeepsAllButTail ==
    fcall.op = "create_targets" =>
        fcall.out = 1..(fcall.arg - Max(Periods))

\* C19: in every fold of the cross-validation of a trial every validation
\* row is later than every training row, each fold validates on later rows
\* than the fold before it, and the rows of a fold keep their order.
C19_FoldsRespectTime ==
    fcall.op = "_train_model" =>
        \A k \in 1..Len(fcall.out.folds) :
            LET f == fcall.out.folds[k]
            IN  /\ \A i \in 1..Len(f.train), j \in 1..Len(f.val) :
                       f.train[i] < f.val[j]
                /\ \A i \in 1..(Len(f.train) - 1) : f.train[i] < f.train[i + 1]
                /\ \A j \in 1..(Len(f.val) - 1) : f.val[j] < f.val[j + 1]
                /\ k > 1 =>
                       \A i \in 1..Len(fcall.out.folds[k - 1].val),
                          j \in 1..Len(f.val) :
                           fcall.out.folds[k - 1].val[i] < f.val[j]

\* A trial has been scored on folds of more than one row whose dates are
\* not the row numbers.
C19_Witness ==
    /\ fcall.op = "_train_model"
    /\ ~fcall.out.raised
    /\ Len(fcall.out.folds) = n_splits
    /\ Len(fcall.out.folds[1].train) > 1
    /\ Len(fcall.out.folds[n_splits].val) > 1
    /\ \E i \in 1..Len(fcall.arg) : fcall.arg[i] # i

\* A step that is a call of predict on spm: the only steps that record
\* "predict" in pres.
PredictStep == pres'.op = "predict"

\* A step that is a call of `op` on the ModelManager for symbol s: the call
\* records itself in last, and time does not pass during a call.
CallStep(op, s) == last'.op = op /\ last'.sym = s /\ now' = now

\* C12: predict on a trained model leaves the artifact as it was: the
\* scaler statistics fitted at training time, the recorded feature schema
\* and the fitted per-horizon models.
C12_PredictLeavesArtifact ==
    [][ (PredictStep /\ spm.models # EmptyDict)
         => (/\ spm'.feature_engineer = spm.feature_engineer
             /\ spm'.models = spm.models) ]_vars

C14_SuccessOverwritesAll ==
    (/\ last.op \in {"train_model", "retrain_if_needed"}
     /\ last.trained
     /\ last.status = "success") =>
        /\ last.sym \in DOMAIN models
        /\ last.sym \in DOMAIN model_metadata
        /\ DOMAIN models[last.sym].models = AllArtifactKeys
        /\ \A k \in AllArtifactKeys : models[last.sym].models[k].run = runs
        /\ MetadataRuns(model_metadata[last.sym]) = {runs}
        /\ last.sym \in DOMAIN disk_model
        /\ last.sym \in DOMAIN disk_meta
        /\ disk_model[last.sym] = ValidFile(models[last.sym])
        /\ disk_meta[last.sym] = ValidFile(model_metadata[last.sym])

\* A second training of a symbol has returned success after a first one
\* had stored its version.
C14_Witness ==
    /\ last.op = "train_model"
    /\ last.status = "success"
    /\ prev.op \in {"train_model", "retrain_if_needed"}
    /\ prev.sym = last.sym
    /\ prev.status = "success"
    /\ prev.updated
    /\ runs = MaxRuns

\* C15: a train_model or retrain_if_needed whose training returns status
\* error leaves the cached model, the cached metadata and the files as
\* they were.
C15_FailedTrainingChangesNothing ==
    (/\ last.op \in {"train_model", "retrain_if_needed"}
     /\ last.trained
     /\ ~last.memOk) =>
        (~last.changed /\ ~last.updated /\ last.status = "error")

\* A training has failed for a symbol that has a version in the cache and
\* on disk.
C15_Witness ==
    /\ last.op \in {"train_model", "retrain_if_needed"}
    /\ last.trained
    /\ ~last.memOk
    /\ last.sym \in DOMAIN models
    /\ last.sym \in DOMAIN model_metadata
    /\ last.sym \in DOMAIN disk_model

ManagerOps ==
    {"train_model", "retrain_if_needed", "get_prediction", "get_model_metadata"}

\* What a ModelManager and its directory hold for symbol b.
Entry(ms, md, dm, dd, b) ==
    <<IF b \in DOMAIN ms THEN {ms[b]} ELSE {},
      IF b \in DOMAIN md THEN {md[b]} ELSE {},
      IF b \in DOMAIN dm THEN {dm[b]} ELSE {},
      IF b \in DOMAIN dd THEN {dd[b]} ELSE {}>>

\* C20: a train_model, retrain_if_needed, get_prediction or
\* get_model_metadata for one symbol changes neither the cached model, nor
\* the cached metadata, nor the files of any other symbol.
C20_OtherSymbolsUntouched ==
    [][ \A s \in Symbols :
          (\E op \in ManagerOps : CallStep(op, s)) =>
              \A b \in Symbols \ {s} :
                  Entry(models', model_metadata', disk_model', disk_meta', b)
                      = Entry(models, model_metadata, disk_model, disk_meta, b)
      ]_vars

\* A training for one symbol has succeeded while another symbol had its
\* version in the cache and on disk.
C20_Witness ==
    /\ last.op = "train_model"
    /\ last.status = "success"
    /\ \E b \in Symbols \ {last.sym} :
           /\ b \in DOMAIN models
           /\ b \in DOMAIN model_metadata
           /\ b \in DOMAIN disk_model
           /\ b \in DOMAIN disk_meta

C22_MetadataFoundWheneverItExists ==
    last.op = "get_model_metadata" =>
        (last.status = "success" <=>
            \/ last.sym \in DOMAIN model_metadata
            \/ /\ last.sym \in DOMAIN disk_meta
               /\ disk_meta[last.sym].valid)

\* C25: a retrain_if_needed for a symbol that is not in the cache and whose
\* metadata document on disk is readable and not older than max_age_days
\* does not train and leaves the document as it is.
C25_StalenessReadsPersistedMetadata ==
    [][ \A s \in Active :
          (/\ CallStep("retrain_if_needed", s)
           /\ s \notin DOMAIN model_metadata
           /\ s \in DOMAIN disk_meta
           /\ disk_meta[s].valid
           /\ Days(now - fromisoformat(disk_meta[s].content.last_trained))
                  <= last'.max_age_days)
          => (~last'.trained /\ disk_meta' = disk_meta) ]_vars

\* C26: every symbol that has a cached model has cached metadata, and that
\* metadata is the metadata document persisted for the symbol.
C26_CacheAgreesWithDisk ==
    \A s \in DOMAIN models :
        /\ s \in DOMAIN model_metadata
        /\ s \in DOMAIN disk_meta
        /\ disk_meta[s] = ValidFile(model_metadata[s])

\* C23: every hyperparameter search runs at most the bounded number of
\* trials and then fits the best configuration once, a train call over the
\* four horizons makes at most 8 searches, and the call comes to an end.
C23_SearchTerminates ==
    /\ [](/\ search.trials <= n_trials
          /\ search.searches <= Len(forecast_periods) * Len(Tasks)
          /\ search.refits <= search.searches)
    /\ (search.pc = "optimize") ~> (search.pc \in {"done", "error"})

\* A train call has ended after 8 searches of 50 trials each.
C23_Witness ==
    /\ search.pc = "done"
    /\ search.trials = n_trials
    /\ search.searches = Len(forecast_periods) * Len(Tasks)
    /\ search.refits = search.searches

\* C24: /chat makes one call and answers each failure class with its own
\* response: connection error 503 connection_error, timeout 504
\* timeout_error, other API error 500 api_error, other exception 500
\* internal_error, success 200 with status success.
C24_ChatErrorMapping ==
    response.endpoint = "chat" =>
        /\ response.calls = 1
        /\ response.raised = "none" =>
               response.status_code = 200 /\ response.status = "success"
        /\ response.raised = "APIConnectionError" =>
               /\ response.status_code = 503
               /\ response.error_type = "connection_error"
        /\ response.raised = "APITimeoutError" =>
               /\ response.status_code = 504
               /\ response.error_type = "timeout_error"
        /\ response.raised \in {"APIError", "APIStatusError"} =>
               /\ response.status_code = 500
               /\ response.error_type = "api_error"
        /\ response.raised = "IndexError" =>
               /\ response.status_code = 500
               /\ response.error_type = "internal_error"

\* C28: whatever the interleaving of /upload requests, each returned
\* document_index is the position of the request's own document, and two
\* requests never get the same index.
C28_UploadIndexIsOwnPosition ==
    \A r \in Requests : uploads[r].pc = "returned" =>
        /\ getitem(processed_documents, uploads[r].document_index).value = r
        /\ \A q \in Requests \ {r} : uploads[q].pc = "returned" =>
               uploads[q].document_index /= uploads[r].document_index

\* C29: /qa calls the AI service with processed_documents[document_index]
\* only when 0 <= document_index < len(processed_documents); any other
\* index and an empty store get 400 without a call.
C29_QaIndexValidated ==
    response.endpoint = "qa" =>
        IF 0 <= response.document_index
           /\ response.document_index < response.ndocs
        THEN response.status_code /= 400
        ELSE response.status_code = 400 /\ response.calls = 0

\* C27: process_queue deletes a message only after the analysis of its
\* symbol is stored in Redis, and every received message is deleted in the
\* end, also one without a symbol or one behind a message that raised.
C27_ReceivedMessagesGetDeleted ==
    /\ [](\A m \in DOMAIN sqs : StateOf(m) = "deleted" => m \in analysis)
    /\ \A m \in 1..MaxMessages :
           (StateOf(m) = "inflight") ~> (StateOf(m) = "deleted")

\* C30: whatever the interleaving of get_redis_client calls, between two
\* closes at most one client is created and every caller gets that same
\* client; after close_redis_client the shared client is None and the next
\* call creates exactly one new client.
C30_OneSharedClient ==
    /\ Cardinality(pool.created) <= 1
    /\ \A c, d \in Callers :
           callers[c].pc = "returned" /\ callers[d].pc = "returned" =>
               callers[c].client = callers[d].client

====
